---- MODULE Spec2Model ----
(***************************************************************************)
(* Model of the seed_pipeline ingestion core: the normalizer              *)
(* (normalize/text.py), the record validator (ingest/validate.py), the    *)
(* generic_responses_v1 adapter, the file helpers (ingest/file_io.py),    *)
(* the Metrics counters and ingest_batch with its get-or-create helpers   *)
(* (ingest/batch.py) running against a transactional store                *)
(* (db/models.py, db/engine.py).  Beside the single-writer engine (Spec)   *)
(* it covers callers of the normalizer (SpecNormalize), two writers inside *)
(* _get_or_create_seed at once (SpecRace), the seed_diff endpoint of       *)
(* api/routers/seeds.py between ingestion runs (SpecApi),                  *)
(* Metrics.increment (SpecMetrics) and a program that calls ingest_batch   *)
(* itself, first as a dry run and then for real (SpecCaller).              *)
(*                                                                         *)
(* Text is a sequence of characters; a character is a short name:         *)
(*   "a" "b"      lower-case letters                                       *)
(*   "A" "B"      upper-case letters                                       *)
(*   "a_uml"      U+00E4, a with diaeresis (precomposed)                   *)
(*   "A_uml"      U+00C4                                                   *)
(*   "comb"       U+0308, combining diaeresis                              *)
(*   "sp" "tab"   U+0020, U+0009 (whitespace)                              *)
(*   "diaer"      U+00A8, spacing diaeresis (NFKD: space + U+0308)         *)
(*   "modA"       U+1D2C, modifier letter capital A (NFKD: "A")            *)
(*   "7"          a digit                                                  *)
(***************************************************************************)
EXTENDS Integers, Sequences, FiniteSets, TLC

----------------------------------------------------------------------------
(* Generic sequence helpers *)

RECURSIVE Concat(_)
Concat(ss) ==
  IF ss = <<>> THEN <<>> ELSE Head(ss) \o Concat(Tail(ss))

----------------------------------------------------------------------------
(* normalize/text.py *)

IsSpace(ch) == ch \in {"sp", "tab"}

Combining(ch) == ch = "comb"

Lower(ch) ==
  CASE ch = "A" -> "a"
    [] ch = "B" -> "b"
    [] ch = "A_uml" -> "a_uml"
    [] OTHER -> ch

NFKD(ch) ==
  CASE ch = "a_uml" -> <<"a", "comb">>
    [] ch = "A_uml" -> <<"A", "comb">>
    [] ch = "diaer" -> <<"sp", "comb">>
    [] ch = "modA" -> <<"A">>
    [] OTHER -> <<ch>>

RECURSIVE LStrip(_)
LStrip(t) ==
  IF t # <<>> /\ IsSpace(Head(t)) THEN LStrip(Tail(t)) ELSE t

RECURSIVE RStrip(_)
RStrip(t) ==
  IF t # <<>> /\ IsSpace(t[Len(t)]) THEN RStrip(SubSeq(t, 1, Len(t) - 1)) ELSE t

Strip(t) == RStrip(LStrip(t))

LowerText(t) == [i \in 1..Len(t) |-> Lower(t[i])]

NotCombining(ch) == ~Combining(ch)

_strip_accents(t) ==
  SelectSeq(Concat([i \in 1..Len(t) |-> NFKD(t[i])]), NotCombining)

RECURSIVE CollapseWhitespace(_)
CollapseWhitespace(t) ==
  IF t = <<>> THEN <<>>
  ELSE IF IsSpace(Head(t))
       THEN <<"sp">> \o CollapseWhitespace(LStrip(t))
       ELSE <<Head(t)>> \o CollapseWhitespace(Tail(t))

RECURSIVE RunLen(_)
RunLen(t) ==
  IF Len(t) >= 2 /\ t[2] = t[1] THEN 1 + RunLen(Tail(t)) ELSE 1

RepeatMin == 3

RECURSIVE CollapseRepeats(_)
CollapseRepeats(t) ==
  IF t = <<>> THEN <<>>
  ELSE LET n == RunLen(t)
       IN IF n >= RepeatMin
          THEN <<Head(t)>> \o CollapseRepeats(SubSeq(t, n + 1, Len(t)))
          ELSE <<Head(t)>> \o CollapseRepeats(Tail(t))

normalize_text(text, collapse_repeats) ==
  LET t1 == Strip(text)
      t2 == LowerText(t1)
      t3 == _strip_accents(t2)
      t4 == CollapseWhitespace(t3)
  IN IF collapse_repeats THEN CollapseRepeats(t4) ELSE t4

normalize_seed(text) == normalize_text(text, FALSE)

normalize_variation(text) == normalize_text(text, FALSE)

md5_hex(text) == <<"md5", text>>

----------------------------------------------------------------------------
(* Python values as they come out of json.load: None, a string, an integer *)

None == [t |-> "none", s |-> <<>>, n |-> 0]

StrVal(chars) == [t |-> "str", s |-> chars, n |-> 0]

IntVal(k) == [t |-> "int", s |-> <<>>, n |-> k]

Truthy(v) ==
  CASE v.t = "none" -> FALSE
    [] v.t = "str" -> v.s # <<>>
    [] v.t = "int" -> v.n # 0

IsStr(v) == v.t = "str"

Digit == <<"0", "1", "2", "3", "4", "5", "6", "7", "8", "9">>

RECURSIVE IntToText(_)
IntToText(k) ==
  IF k < Len(Digit) THEN <<Digit[k + 1]>>
  ELSE IntToText(k \div Len(Digit)) \o <<Digit[(k % Len(Digit)) + 1]>>

PyStr(v) ==
  CASE v.t = "str" -> StrVal(v.s)
    [] v.t = "int" -> StrVal(IntToText(v.n))
    [] v.t = "none" -> StrVal(<<"N", "o", "n", "e">>)

----------------------------------------------------------------------------
(* ingest/validate.py *)

(* validate_record without the isinstance checks *)
ValidateTruthyOnly(record) ==
  IF ~Truthy(record.seed)
  THEN [valid |-> FALSE, reason |-> "missing or invalid seed"]
  ELSE IF ~Truthy(record.variation)
       THEN [valid |-> FALSE, reason |-> "missing or invalid variation"]
       ELSE [valid |-> TRUE, reason |-> "none"]

validate_record(record) ==
  LET seed == record.seed
      variation == record.variation
  IN IF ~Truthy(seed) \/ ~IsStr(seed)
     THEN [valid |-> FALSE, reason |-> "missing or invalid seed"]
     ELSE IF ~Truthy(variation) \/ ~IsStr(variation)
          THEN [valid |-> FALSE, reason |-> "missing or invalid variation"]
          ELSE [valid |-> TRUE, reason |-> "none"]

----------------------------------------------------------------------------
(* adapters/generic_responses_v1.py.  A parsed document is                 *)
(*   [t, responses_t, responses]: t and responses_t are the JSON types of  *)
(*   the document and of its "responses" member, responses the response    *)
(*   items in document order;                                              *)
(* a response item is [t, hotkey, uid, variations_t, variations];          *)
(* an entry of a variations mapping is [seed, list_t, list].               *)

_get_miner_id(resp) ==
  IF Truthy(resp.hotkey) THEN PyStr(resp.hotkey)
  ELSE IF resp.uid # None THEN PyStr(resp.uid)
  ELSE None

ParseEntry(miner_id, entry) ==
  IF entry.list_t # "list" THEN <<>>
  ELSE LET kept == SelectSeq(entry.list, Truthy)
       IN [i \in 1..Len(kept) |->
             [seed |-> StrVal(entry.seed), variation |-> kept[i],
              miner_ext_id |-> miner_id, score |-> None, raw |-> None]]

ParseResp(resp) ==
  IF resp.t # "dict" THEN <<>>
  ELSE IF resp.variations_t # "dict" THEN <<>>
  ELSE Concat([i \in 1..Len(resp.variations) |->
                 ParseEntry(_get_miner_id(resp), resp.variations[i])])

parse(obj) ==
  IF obj.t # "dict" THEN <<>>
  ELSE IF obj.responses_t # "dict" THEN <<>>
  ELSE Concat([i \in 1..Len(obj.responses) |-> ParseResp(obj.responses[i])])

(* adapters/registry.py *)

_REGISTRY == {"generic_responses_v1"}

(* get_adapter falling back to a parser for a name it does not know *)
GetAdapterLenient(name) == [raised |-> FALSE]

get_adapter(name) ==
  IF name \in _REGISTRY THEN [raised |-> FALSE] ELSE [raised |-> TRUE]

----------------------------------------------------------------------------
(* Input files.  A file on disk is [path, kind, readable, bytes]; bytes     *)
(* names the file's content.                                               *)

Entry(seed, list) == [seed |-> seed, list_t |-> "list", list |-> list]

Resp(hotkey, uid, variations) ==
  [t |-> "dict", hotkey |-> hotkey, uid |-> uid,
   variations_t |-> "dict", variations |-> variations]

Document(responses) ==
  [t |-> "dict", responses_t |-> "dict", responses |-> responses]

(* {"responses": {"7": {"hotkey": "B", "uid": 7,                          *)
(*                      "variations": {"Ab": ["ba", "Ba "]}}}}             *)
DocA ==
  Document(<<Resp(StrVal(<<"B">>), IntVal(7),
    <<Entry(<<"A", "b">>, <<StrVal(<<"b", "a">>), StrVal(<<"B", "a", "sp">>)>>)>>)>>)

(* {"responses": {"7": {"uid": 7, "variations":                            *)
(*    {"\u00e4b": ["ba", 5, null], "": ["ba"], "b": ["ba"]}}}}        *)
DocB ==
  Document(<<Resp(None, IntVal(7),
    <<Entry(<<"a_uml", "b">>, <<StrVal(<<"b", "a">>), IntVal(5), None>>),
      Entry(<<>>, <<StrVal(<<"b", "a">>)>>),
      Entry(<<"b">>, <<StrVal(<<"b", "a">>)>>)>>)>>)

(* {"responses": {"1": {"hotkey": "", "variations": {" ": ["\u00a8"]}}, *)
(*                "2": "x",                                                *)
(*                "3": {"uid": 7, "variations": {"b": "ba"}}}}             *)
DocC ==
  Document(<<Resp(StrVal(<<>>), None,
               <<Entry(<<"sp">>, <<StrVal(<<"diaer">>)>>)>>),
             [t |-> "str", hotkey |-> None, uid |-> None,
              variations_t |-> "dict", variations |-> <<>>],
             Resp(None, IntVal(7),
               <<[seed |-> <<"b">>, list_t |-> "str", list |-> <<>>]>>)>>)

Malformed == [t |-> "malformed", responses_t |-> "none", responses |-> <<>>]

Content(bytes) ==
  CASE bytes = "cA" -> DocA
    [] bytes = "cB" -> DocB
    [] bytes = "cC" -> DocC
    [] OTHER -> Malformed

File(path, bytes) ==
  [path |-> path, kind |-> "file", readable |-> TRUE, bytes |-> bytes]

F1 == File("p1", "cA")

F2 == File("p2", "cA")

F3 == File("p1", "cB")

F4 == File("p3", "cC")

F5 == File("p4", "cM")

F6 == [path |-> "p5", kind |-> "dir", readable |-> TRUE, bytes |-> "none"]

F7 == [path |-> "p6", kind |-> "file", readable |-> FALSE, bytes |-> "cA"]

FileLists ==
  {<<F1, F2>>, <<F1, F3>>, <<F5, F3>>, <<F6, F1>>, <<F7, F1>>, <<F4>>}

BatchNames == {"b1", "b2"}

AdapterNames == {"generic_responses_v1", "csv_v0"}

(* ingest/file_io.py *)

is_file(f) == f.kind = "file"

compute_checksum(f) ==
  IF f.readable THEN [raised |-> FALSE, digest |-> <<"sha256", f.bytes>>]
  ELSE [raised |-> TRUE, digest |-> <<>>]

(* load_json without its error handling: whatever was read is handed on *)
LoadJsonTrusting(f) == [raised |-> FALSE, data |-> Content(f.bytes)]

load_json(f) ==
  IF ~f.readable \/ Content(f.bytes).t = "malformed"
  THEN [raised |-> TRUE, data |-> Malformed]
  ELSE [raised |-> FALSE, data |-> Content(f.bytes)]

----------------------------------------------------------------------------
(* ingest/metrics.py *)

Metrics ==
  [seeds_new |-> 0, seeds_existing |-> 0, variations_new |-> 0,
   variations_existing |-> 0, observations_inserted |-> 0,
   files_processed |-> 0, files_skipped |-> 0, invalid_records |-> 0]

----------------------------------------------------------------------------
(* db/models.py: a table is the sequence of its rows, a row's id is its    *)
(* position.  A nullable column holds <<>> for NULL and <<v>> for v.       *)

EmptyStore ==
  [seeds |-> <<>>, variations |-> <<>>, miners |-> <<>>, batches |-> <<>>,
   source_files |-> <<>>, observations |-> <<>>]

(* A Seed row whose hash is taken over the raw text *)
SeedHashedRaw(seed_text, normalized_seed, seed_hash) ==
  [seed_text |-> seed_text, normalized_seed |-> normalized_seed,
   seed_hash |-> <<"md5", seed_text>>]

Seed(seed_text, normalized_seed, seed_hash) ==
  [seed_text |-> seed_text, normalized_seed |-> normalized_seed,
   seed_hash |-> seed_hash]

Variation(seed_id, variation_text, normalized_variation, variation_hash) ==
  [seed_id |-> seed_id, variation_text |-> variation_text,
   normalized_variation |-> normalized_variation,
   variation_hash |-> variation_hash]

Miner(miner_external_id) == [miner_external_id |-> miner_external_id]

Batch(batch_name) == [batch_name |-> batch_name]

SourceFile(batch_id, file_path, file_checksum) ==
  [batch_id |-> batch_id, file_path |-> file_path,
   file_checksum |-> file_checksum, record_count |-> <<>>]

Observation(seed_id, variation_id, miner_id, batch_id, source_file_id, score, raw_payload) ==
  [seed_id |-> seed_id, variation_id |-> variation_id, miner_id |-> miner_id,
   batch_id |-> batch_id, source_file_id |-> source_file_id,
   score |-> score, raw_payload |-> raw_payload]

(* The unique constraints of the tables, checked when a row is flushed. *)
SeedInsertOk(store, row) ==
  \A i \in DOMAIN store.seeds : store.seeds[i].seed_text # row.seed_text

VariationInsertOk(store, row) ==
  \A i \in DOMAIN store.variations :
    ~(store.variations[i].seed_id = row.seed_id
      /\ store.variations[i].normalized_variation = row.normalized_variation)

MinerInsertOk(store, row) ==
  \A i \in DOMAIN store.miners :
    store.miners[i].miner_external_id # row.miner_external_id

BatchInsertOk(store, row) ==
  \A i \in DOMAIN store.batches : store.batches[i].batch_name # row.batch_name

(* Result.scalar_one_or_none over the ids a select matched *)
scalar_one_or_none(ids) ==
  IF Cardinality(ids) > 1 THEN [raised |-> TRUE, id |-> 0]
  ELSE IF ids = {} THEN [raised |-> FALSE, id |-> 0]
  ELSE [raised |-> FALSE, id |-> CHOOSE i \in ids : TRUE]

(* db/engine.py: Session.commit makes the session's flushed rows durable;  *)
(* leaving the `with SessionLocal()` block closes the session, which rolls *)
(* back whatever was flushed and not committed.  Both yield the committed  *)
(* store after the call.                                                   *)
(* A commit that makes nothing durable *)
CommitNothing(committed, sess) == committed

Commit(committed, sess) == sess

(* A close that makes the flushed rows durable (an autocommit session) *)
CloseCommits(committed, sess) == sess

Close(committed, sess) == committed

----------------------------------------------------------------------------
(* ingest/batch.py: the get-or-create helpers.  Each returns the session   *)
(* after the call, the id of the row it yields and whether it raised.      *)

(* _get_or_create_batch without the lookup: every call adds a Batch row *)
BatchAlwaysNew(sess, batch_name) ==
  [raised |-> FALSE,
   session |-> [sess EXCEPT !.batches = Append(@, Batch(batch_name))],
   id |-> Len(sess.batches) + 1]

_get_or_create_batch(sess, batch_name) ==
  LET got == scalar_one_or_none(
               {i \in DOMAIN sess.batches : sess.batches[i].batch_name = batch_name})
      row == Batch(batch_name)
  IN IF got.raised THEN [raised |-> TRUE, session |-> sess, id |-> 0]
     ELSE IF got.id # 0 THEN [raised |-> FALSE, session |-> sess, id |-> got.id]
     ELSE IF ~BatchInsertOk(sess, row) THEN [raised |-> TRUE, session |-> sess, id |-> 0]
     ELSE [raised |-> FALSE,
           session |-> [sess EXCEPT !.batches = Append(@, row)],
           id |-> Len(sess.batches) + 1]

(* _get_or_create_seed looking the Seed up by its raw text *)
SeedByRawText(sess, raw_seed, norm_seed, seed_hash, m) ==
  LET found == {i \in DOMAIN sess.seeds : sess.seeds[i].seed_text = raw_seed}
  IN IF found # {}
     THEN [raised |-> FALSE, session |-> sess,
           metrics |-> [m EXCEPT !.seeds_existing = @ + 1],
           id |-> CHOOSE i \in found : TRUE]
     ELSE [raised |-> FALSE,
           session |-> [sess EXCEPT !.seeds =
                          Append(@, Seed(raw_seed, norm_seed, seed_hash))],
           metrics |-> [m EXCEPT !.seeds_new = @ + 1],
           id |-> Len(sess.seeds) + 1]

(* _get_or_create_seed overwriting the raw text of the Seed it found *)
SeedRefreshed(sess, raw_seed, norm_seed, seed_hash, m) ==
  LET got == scalar_one_or_none(
               {i \in DOMAIN sess.seeds : sess.seeds[i].normalized_seed = norm_seed})
      row == Seed(raw_seed, norm_seed, seed_hash)
  IN IF got.raised THEN [raised |-> TRUE, session |-> sess, metrics |-> m, id |-> 0]
     ELSE IF got.id # 0
     THEN [raised |-> FALSE,
           session |-> [sess EXCEPT !.seeds[got.id].seed_text = raw_seed],
           metrics |-> [m EXCEPT !.seeds_existing = @ + 1], id |-> got.id]
     ELSE IF ~SeedInsertOk(sess, row)
     THEN [raised |-> TRUE, session |-> sess, metrics |-> m, id |-> 0]
     ELSE [raised |-> FALSE,
           session |-> [sess EXCEPT !.seeds = Append(@, row)],
           metrics |-> [m EXCEPT !.seeds_new = @ + 1],
           id |-> Len(sess.seeds) + 1]

_get_or_create_seed(sess, raw_seed, norm_seed, seed_hash, m) ==
  LET got == scalar_one_or_none(
               {i \in DOMAIN sess.seeds : sess.seeds[i].normalized_seed = norm_seed})
      row == Seed(raw_seed, norm_seed, seed_hash)
  IN IF got.raised THEN [raised |-> TRUE, session |-> sess, metrics |-> m, id |-> 0]
     ELSE IF got.id # 0
     THEN [raised |-> FALSE, session |-> sess,
           metrics |-> [m EXCEPT !.seeds_existing = @ + 1], id |-> got.id]
     ELSE IF ~SeedInsertOk(sess, row)
     THEN [raised |-> TRUE, session |-> sess, metrics |-> m, id |-> 0]
     ELSE [raised |-> FALSE,
           session |-> [sess EXCEPT !.seeds = Append(@, row)],
           metrics |-> [m EXCEPT !.seeds_new = @ + 1],
           id |-> Len(sess.seeds) + 1]

(* _get_or_create_variation looking the Variation up without its Seed *)
VariationOfAnySeed(sess, seed_id, raw_variation, norm_variation, variation_hash, m) ==
  LET found == {i \in DOMAIN sess.variations :
                  sess.variations[i].normalized_variation = norm_variation}
  IN IF found # {}
     THEN [raised |-> FALSE, session |-> sess,
           metrics |-> [m EXCEPT !.variations_existing = @ + 1],
           id |-> CHOOSE i \in found : TRUE]
     ELSE [raised |-> FALSE,
           session |-> [sess EXCEPT !.variations =
                          Append(@, Variation(seed_id, raw_variation,
                                              norm_variation, variation_hash))],
           metrics |-> [m EXCEPT !.variations_new = @ + 1],
           id |-> Len(sess.variations) + 1]

(* _get_or_create_variation counting only the Variations it creates *)
VariationFoundUncounted(sess, seed_id, raw_variation, norm_variation, variation_hash, m) ==
  LET got == scalar_one_or_none(
               {i \in DOMAIN sess.variations :
                  /\ sess.variations[i].seed_id = seed_id
                  /\ sess.variations[i].normalized_variation = norm_variation})
      row == Variation(seed_id, raw_variation, norm_variation, variation_hash)
  IN IF got.raised THEN [raised |-> TRUE, session |-> sess, metrics |-> m, id |-> 0]
     ELSE IF got.id # 0
     THEN [raised |-> FALSE, session |-> sess, metrics |-> m, id |-> got.id]
     ELSE IF ~VariationInsertOk(sess, row)
     THEN [raised |-> TRUE, session |-> sess, metrics |-> m, id |-> 0]
     ELSE [raised |-> FALSE,
           session |-> [sess EXCEPT !.variations = Append(@, row)],
           metrics |-> [m EXCEPT !.variations_new = @ + 1],
           id |-> Len(sess.variations) + 1]

_get_or_create_variation(sess, seed_id, raw_variation, norm_variation, variation_hash, m) ==
  LET got == scalar_one_or_none(
               {i \in DOMAIN sess.variations :
                  /\ sess.variations[i].seed_id = seed_id
                  /\ sess.variations[i].normalized_variation = norm_variation})
      row == Variation(seed_id, raw_variation, norm_variation, variation_hash)
  IN IF got.raised THEN [raised |-> TRUE, session |-> sess, metrics |-> m, id |-> 0]
     ELSE IF got.id # 0
     THEN [raised |-> FALSE, session |-> sess,
           metrics |-> [m EXCEPT !.variations_existing = @ + 1], id |-> got.id]
     ELSE IF ~VariationInsertOk(sess, row)
     THEN [raised |-> TRUE, session |-> sess, metrics |-> m, id |-> 0]
     ELSE [raised |-> FALSE,
           session |-> [sess EXCEPT !.variations = Append(@, row)],
           metrics |-> [m EXCEPT !.variations_new = @ + 1],
           id |-> Len(sess.variations) + 1]

(* id is <<>> when the helper returns None *)
_get_or_create_miner(sess, ext_id) ==
  IF ~Truthy(ext_id) THEN [raised |-> FALSE, session |-> sess, id |-> <<>>]
  ELSE
  LET got == scalar_one_or_none(
               {i \in DOMAIN sess.miners : sess.miners[i].miner_external_id = ext_id.s})
      row == Miner(ext_id.s)
  IN IF got.raised THEN [raised |-> TRUE, session |-> sess, id |-> <<>>]
     ELSE IF got.id # 0 THEN [raised |-> FALSE, session |-> sess, id |-> <<got.id>>]
     ELSE IF ~MinerInsertOk(sess, row) THEN [raised |-> TRUE, session |-> sess, id |-> <<>>]
     ELSE [raised |-> FALSE,
           session |-> [sess EXCEPT !.miners = Append(@, row)],
           id |-> <<Len(sess.miners) + 1>>]

(* json.dumps(rec["raw"]) if rec.get("raw") else None *)
RawPayload(rec) ==
  IF Truthy(rec.raw) THEN <<"json", rec.raw>> ELSE <<>>

(* AddObservation deduplicating on (seed, variation, miner) *)
AddObservationOnce(sess, dry_run, obs) ==
  IF dry_run
     \/ \E i \in DOMAIN sess.observations :
          /\ sess.observations[i].seed_id = obs.seed_id
          /\ sess.observations[i].variation_id = obs.variation_id
          /\ sess.observations[i].miner_id = obs.miner_id
  THEN sess
  ELSE [sess EXCEPT !.observations = Append(@, obs)]

(* ingest_batch, lines 204-214: the Observation is added unless dry_run *)
AddObservation(sess, dry_run, obs) ==
  IF dry_run THEN sess ELSE [sess EXCEPT !.observations = Append(@, obs)]

(* ingest_batch, lines 176-216: one record of the adapter's sequence.    *)
(* Yields the session and metrics after the record, whether the record was *)
(* accepted, the Seed and Variation ids it resolved to, and whether a      *)
(* storage call raised.                                                    *)
ProcessOne(sess, m, rec, dry_run, batch_id, src) ==
  LET rejected == [raised |-> FALSE, accepted |-> FALSE, session |-> sess,
                   metrics |-> [m EXCEPT !.invalid_records = @ + 1],
                   seed_id |-> 0, variation_id |-> 0]
      failed == [raised |-> TRUE, accepted |-> FALSE, session |-> sess,
                 metrics |-> m, seed_id |-> 0, variation_id |-> 0]
  IN IF ~validate_record(rec).valid THEN rejected
     ELSE
     LET raw_seed == rec.seed.s
         raw_variation == rec.variation.s
         norm_seed == normalize_seed(raw_seed)
         norm_variation == normalize_variation(raw_variation)
         seed_hash == md5_hex(norm_seed)
         var_hash == md5_hex(norm_variation)
         seed == _get_or_create_seed(sess, raw_seed, norm_seed, seed_hash, m)
     IN IF seed.raised THEN failed
        ELSE
        LET variation == _get_or_create_variation(
                           seed.session, seed.id, raw_variation, norm_variation,
                           var_hash, seed.metrics)
        IN IF variation.raised THEN failed
           ELSE
           LET miner == IF Truthy(rec.miner_ext_id)
                        THEN _get_or_create_miner(variation.session, rec.miner_ext_id)
                        ELSE [raised |-> FALSE, session |-> variation.session, id |-> <<>>]
           IN IF miner.raised THEN failed
              ELSE
              LET obs == Observation(seed.id, variation.id, miner.id, batch_id,
                                     src, rec.score, RawPayload(rec))
                  after == AddObservation(miner.session, dry_run, obs)
              IN [raised |-> FALSE, accepted |-> TRUE, session |-> after,
                  metrics |-> [variation.metrics EXCEPT !.observations_inserted = @ + 1],
                  seed_id |-> seed.id, variation_id |-> variation.id]

(* The resume lookup comparing the checksum with the stored path *)
ExistingFileByPath(sess, batch_id, checksum) ==
  scalar_one_or_none(
    {i \in DOMAIN sess.source_files :
       /\ sess.source_files[i].batch_id = batch_id
       /\ <<"sha256", sess.source_files[i].file_path>> = checksum})

(* ingest_batch, lines 148-153: the resume lookup *)
existing_file(sess, batch_id, checksum) ==
  scalar_one_or_none(
    {i \in DOMAIN sess.source_files :
       /\ sess.source_files[i].batch_id = batch_id
       /\ sess.source_files[i].file_checksum = checksum})

(* record_count taken from the number of all Observation rows of the       *)
(* session                                                                 *)
SetRecordCountOfSession(sess, dry_run, src, count) ==
  IF ~dry_run /\ src # <<>>
  THEN [sess EXCEPT !.source_files[src[1]].record_count = <<Len(sess.observations)>>]
  ELSE sess

(* ingest_batch, lines 218-219: the SourceFile's record_count is set *)
SetRecordCount(sess, dry_run, src, count) ==
  IF ~dry_run /\ src # <<>>
  THEN [sess EXCEPT !.source_files[src[1]].record_count = <<count>>]
  ELSE sess

(* The per-file commit put off to the end of the call *)
CommitFileDeferred(committed, sess, dry_run) == committed

(* The per-file commit not guarded by dry_run *)
CommitFileAlways(committed, sess, dry_run) == sess

(* ingest_batch, lines 222-223: the per-file commit; yields the committed  *)
(* store after it                                                          *)
CommitFile(committed, sess, dry_run) ==
  IF dry_run THEN committed ELSE Commit(committed, sess)

----------------------------------------------------------------------------
(* State *)

MaxRuns == 2

VARIABLES
  db,            \* the committed store
  session,       \* the store as the open session sees it (db plus flushed rows)
  pc,            \* "idle" (no call), "file", "records", "returned", "raised"
  run,           \* arguments of the current ingest_batch call
  batch,         \* id of the Batch row of the call
  fileIdx,       \* position in run.files
  recs,          \* records the adapter yields for the current file
  recIdx,        \* position in recs
  record_count,  \* accepted records of the current file
  src_file,      \* <<id>> of the current file's SourceFile row, or <<>>
  metrics,       \* the Metrics object of the call
  err,           \* [kind, at, lostObs]: the exception that ended the call, the
                 \* step it left, whether flushed Observations were discarded
  nRuns,         \* calls started so far
  store0,        \* history: db when the current call started
  prev,          \* history: the latest earlier non-dry-run call that opened a
                 \* session, and how it ended
  disp,          \* history: what became of each file handled in this call
  fileStart,     \* history: the session when the current file was loaded
  journal,       \* history: normalized pairs accepted by non-dry-run calls
  last,          \* history: the record handled last and the ids it resolved to
  normalizer,    \* a caller of the normalizer: its texts and the results it got
  race,          \* concurrent writers, each inside _get_or_create_seed
  api,           \* the seed_diff request being answered, with its response
  forecast       \* the arguments, store and Metrics a caller kept of a dry run

vars ==
  <<db, session, pc, run, batch, fileIdx, recs, recIdx, record_count, src_file,
    metrics, err, nRuns, store0, prev, disp, fileStart, journal, last,
    normalizer, race, api, forecast>>

otherVars == <<normalizer, race, api, forecast>>

NoRun ==
  [batch_name |-> "", files |-> <<>>, adapter_name |-> "", dry_run |-> FALSE,
   resume |-> FALSE]

NoErr == [kind |-> "none", at |-> "none", lostObs |-> FALSE]

NoLast ==
  [rec |-> [seed |-> None, variation |-> None, miner_ext_id |-> None,
            score |-> None, raw |-> None],
   accepted |-> FALSE, seed_id |-> 0, variation_id |-> 0]

(* A caller of the normalizer that has made no call: the text it holds, a  *)
(* second text it compares with, the results of normalize_text fed back    *)
(* into itself, and the results of normalize_seed and normalize_variation  *)
(* on the two texts.                                                       *)
Caller(text, collapse_repeats) ==
  [text |-> text, variant |-> text, collapse_repeats |-> collapse_repeats,
   results |-> <<>>, pair |-> <<>>]

NoNorm == Caller(<<>>, FALSE)

Writers == {"w1", "w2"}

(* No writer has entered _get_or_create_seed *)
NoRace ==
  [w \in Writers |-> [pc |-> "idle", raw_seed |-> <<>>, pending |-> <<>>]]

(* No seed_diff request is being answered *)
NoRequest ==
  [called |-> FALSE, seed |-> <<>>, variations |-> <<>>, raised |-> FALSE,
   existing |-> <<>>, new |-> <<>>, before |-> EmptyStore]

(* No dry run has been kept *)
NoForecast == [run |-> NoRun, store |-> EmptyStore, metrics |-> Metrics]

(* The store and the ingestion engine after construction *)
Fresh ==
  /\ db = EmptyStore
  /\ session = EmptyStore
  /\ pc = "idle"
  /\ run = NoRun
  /\ batch = 0
  /\ fileIdx = 0
  /\ recs = <<>>
  /\ recIdx = 0
  /\ record_count = 0
  /\ src_file = <<>>
  /\ metrics = Metrics
  /\ err = NoErr
  /\ nRuns = 0
  /\ store0 = EmptyStore
  /\ prev = [run |-> NoRun, pc |-> "idle", at |-> "none", fileIdx |-> 0]
  /\ disp = <<>>
  /\ fileStart = EmptyStore
  /\ journal = [open |-> <<>>, durable |-> <<>>]
  /\ last = NoLast

Init ==
  /\ Fresh
  /\ normalizer = NoNorm
  /\ race = NoRace
  /\ api = NoRequest
  /\ forecast = NoForecast

(* An exception leaves ingest_batch: the `with` block closes the session,  *)
(* the locals of the call are gone and no Metrics are returned.            *)
Raise(kind) ==
  /\ pc' = "raised"
  /\ err' = [kind |-> kind, at |-> pc,
             lostObs |-> session.observations # db.observations]
  /\ db' = Close(db, session)
  /\ session' = db'
  /\ journal' = [journal EXCEPT !.open = journal.durable]
  /\ recs' = <<>>
  /\ recIdx' = 0
  /\ record_count' = 0
  /\ src_file' = <<>>
  /\ metrics' = Metrics
  /\ last' = NoLast
  /\ UNCHANGED <<run, batch, fileIdx, nRuns, store0, prev, disp, fileStart>>

(* ingest_batch, lines 135-140: Metrics(), get_adapter, open the session,  *)
(* get or create the Batch.                                                *)
StartRun(batch_name, files, adapter_name, dry_run, resume) ==
  /\ pc = "idle"
  /\ nRuns < MaxRuns
  /\ UNCHANGED otherVars
  /\ nRuns' = nRuns + 1
  /\ run' = [batch_name |-> batch_name, files |-> files,
             adapter_name |-> adapter_name, dry_run |-> dry_run, resume |-> resume]
  /\ store0' = db
  /\ metrics' = Metrics
  /\ disp' = <<>>
  /\ fileIdx' = 1
  /\ recs' = <<>>
  /\ recIdx' = 0
  /\ record_count' = 0
  /\ src_file' = <<>>
  /\ fileStart' = db
  /\ last' = NoLast
  /\ UNCHANGED <<db, journal, prev>>
  /\ IF get_adapter(adapter_name).raised
     THEN /\ pc' = "raised"
          /\ err' = [kind |-> "KeyError", at |-> "start", lostObs |-> FALSE]
          /\ session' = db
          /\ batch' = 0
     ELSE LET b == _get_or_create_batch(db, batch_name)
          IN IF b.raised
             THEN /\ pc' = "raised"
                  /\ err' = [kind |-> "StorageError", at |-> "start", lostObs |-> FALSE]
                  /\ session' = db
                  /\ batch' = 0
             ELSE /\ pc' = "file"
                  /\ err' = NoErr
                  /\ session' = b.session
                  /\ batch' = b.id

(* ingest_batch, lines 141-172: the next path of the list up to the start  *)
(* of its record loop.                                                     *)
NextFile ==
  /\ pc = "file"
  /\ fileIdx <= Len(run.files)
  /\ UNCHANGED otherVars
  /\ LET path == run.files[fileIdx]
         sum == compute_checksum(path)
         found == existing_file(session, batch, sum.digest)
         loaded == load_json(path)
         skip(what, m) ==
           /\ pc' = "file"
           /\ fileIdx' = fileIdx + 1
           /\ metrics' = m
           /\ disp' = Append(disp, [what |-> what, sf |-> 0])
           /\ UNCHANGED <<db, session, run, batch, recs, recIdx, record_count,
                          src_file, err, nRuns, store0, prev, fileStart, journal,
                          last>>
     IN IF ~is_file(path) THEN skip("not_a_file", metrics)
        ELSE IF sum.raised THEN Raise("PermissionError")
        ELSE IF run.resume /\ found.raised THEN Raise("MultipleResultsFound")
        ELSE IF run.resume /\ found.id # 0
        THEN skip("skipped", [metrics EXCEPT !.files_skipped = @ + 1])
        ELSE IF loaded.raised
        THEN skip("malformed", [metrics EXCEPT !.invalid_records = @ + 1])
        ELSE /\ pc' = "records"
             /\ session' =
                  IF run.dry_run THEN session
                  ELSE [session EXCEPT !.source_files =
                          Append(@, SourceFile(batch, path.path, sum.digest))]
             /\ src_file' =
                  IF run.dry_run THEN <<>> ELSE <<Len(session.source_files) + 1>>
             /\ recs' = parse(loaded.data)
             /\ recIdx' = 1
             /\ record_count' = 0
             /\ fileStart' = session
             /\ disp' = Append(disp,
                  [what |-> "loaded",
                   sf |-> IF run.dry_run THEN 0 ELSE Len(session.source_files) + 1])
             /\ UNCHANGED <<db, run, batch, fileIdx, metrics, err, nRuns, store0,
                            prev, journal, last>>

(* ingest_batch, lines 175-216: the next record of the current file. *)
NextRecord ==
  /\ pc = "records"
  /\ recIdx <= Len(recs)
  /\ UNCHANGED otherVars
  /\ LET rec == recs[recIdx]
         r == ProcessOne(session, metrics, rec, run.dry_run, batch, src_file)
     IN IF r.raised THEN Raise("StorageError")
        ELSE /\ session' = r.session
             /\ metrics' = r.metrics
             /\ recIdx' = recIdx + 1
             /\ record_count' = IF r.accepted THEN record_count + 1 ELSE record_count
             /\ last' = [rec |-> rec, accepted |-> r.accepted,
                         seed_id |-> r.seed_id, variation_id |-> r.variation_id]
             /\ journal' =
                  IF r.accepted /\ ~run.dry_run
                  THEN [journal EXCEPT !.open =
                          Append(@, <<normalize_seed(rec.seed.s),
                                      normalize_variation(rec.variation.s)>>)]
                  ELSE journal
             /\ UNCHANGED <<db, pc, run, batch, fileIdx, recs, src_file, err,
                            nRuns, store0, prev, disp, fileStart>>

(* ingest_batch, lines 217-223: the record loop is exhausted. *)
FinishFile ==
  /\ pc = "records"
  /\ recIdx > Len(recs)
  /\ UNCHANGED otherVars
  /\ LET counted == SetRecordCount(session, run.dry_run, src_file, record_count)
     IN /\ session' = counted
        /\ db' = CommitFile(db, counted, run.dry_run)
  /\ journal' = IF run.dry_run THEN journal
                ELSE [journal EXCEPT !.durable = journal.open]
  /\ metrics' = [metrics EXCEPT !.files_processed = @ + 1]
  /\ fileIdx' = fileIdx + 1
  /\ pc' = "file"
  /\ UNCHANGED <<run, batch, recs, recIdx, record_count, src_file, err, nRuns,
                 store0, prev, disp, fileStart, last>>

(* ingest_batch, line 224: the file list is exhausted; the Metrics are     *)
(* returned and the `with` block closes the session.                       *)
Return ==
  /\ pc = "file"
  /\ fileIdx > Len(run.files)
  /\ pc' = "returned"
  /\ UNCHANGED otherVars
  /\ db' = Close(db, session)
  /\ session' = db'
  /\ journal' = [journal EXCEPT !.open = journal.durable]
  /\ UNCHANGED <<run, batch, fileIdx, recs, recIdx, record_count, src_file,
                 metrics, err, nRuns, store0, prev, disp, fileStart, last>>

(* The process is killed, or a storage call fails, between two steps. *)
Crash ==
  /\ pc \in {"file", "records"}
  /\ Raise("Crash")
  /\ UNCHANGED otherVars

(* ingest/cli.py, lines 59-67: the caller prints the summary, or the        *)
(* exception ends the process; the call and its locals are over.           *)
Exit ==
  /\ pc \in {"returned", "raised"}
  /\ pc' = "idle"
  /\ prev' = IF err.at # "start" /\ ~run.dry_run
             THEN [run |-> run, pc |-> pc, at |-> err.at, fileIdx |-> fileIdx]
             ELSE prev
  /\ run' = NoRun
  /\ batch' = 0
  /\ fileIdx' = 0
  /\ recs' = <<>>
  /\ recIdx' = 0
  /\ record_count' = 0
  /\ src_file' = <<>>
  /\ metrics' = Metrics
  /\ err' = NoErr
  /\ disp' = <<>>
  /\ fileStart' = db
  /\ store0' = db
  /\ last' = NoLast
  /\ UNCHANGED <<db, session, nRuns, journal>>
  /\ UNCHANGED otherVars

Next ==
  \/ \E batch_name \in BatchNames, files \in FileLists,
        adapter_name \in AdapterNames, dry_run \in BOOLEAN, resume \in BOOLEAN :
       StartRun(batch_name, files, adapter_name, dry_run, resume)
  \/ NextFile
  \/ NextRecord
  \/ FinishFile
  \/ Return
  \/ Crash
  \/ Exit

Spec == Init /\ [][Next]_vars

----------------------------------------------------------------------------
(* Properties *)

Stores == {db, session}

SeedsOf(store, norm) ==
  {i \in DOMAIN store.seeds : store.seeds[i].normalized_seed = norm}

VariationsOf(store, norm_seed, norm_variation) ==
  {j \in DOMAIN store.variations :
     /\ store.variations[j].normalized_variation = norm_variation
     /\ store.seeds[store.variations[j].seed_id].normalized_seed = norm_seed}

ObservationsOf(store, norm_seed, norm_variation) ==
  {k \in DOMAIN store.observations :
     /\ store.seeds[store.observations[k].seed_id].normalized_seed = norm_seed
     /\ store.variations[store.observations[k].variation_id].normalized_variation
          = norm_variation}

Times(seq, x) == Cardinality({i \in DOMAIN seq : seq[i] = x})

(* C1: when non-dry-run ingest_batch calls have processed and committed a  *)
(* canonical record of one normalized (seed, variation) pair k times, in   *)
(* one batch or in several (in particular k = 2), the committed store      *)
(* holds exactly one Seed row and one Variation row for the pair and       *)
(* exactly k Observation rows for it.                                      *)
C1_DedupSeedVariationNotObservation ==
  \A i \in DOMAIN journal.durable :
    LET pair == journal.durable[i]
    IN /\ Cardinality(SeedsOf(db, pair[1])) = 1
       /\ Cardinality(VariationsOf(db, pair[1], pair[2])) = 1
       /\ Cardinality(ObservationsOf(db, pair[1], pair[2]))
            = Times(journal.durable, pair)

(* A pair recorded twice within one batch and once more in another batch. *)
C1_Witness ==
  \E i \in DOMAIN journal.durable :
    LET pair == journal.durable[i]
        obs == ObservationsOf(db, pair[1], pair[2])
    IN \E a, b, c \in obs :
         /\ a # b
         /\ db.observations[a].batch_id = db.observations[b].batch_id
         /\ db.observations[a].batch_id # db.observations[c].batch_id

(* C2: in the committed store and in the session of any call, no two Seed  *)
(* rows have the same normalized_seed, and the Seed that                   *)
(* _get_or_create_seed yields for an accepted record is the row whose      *)
(* normalized_seed is the normalized raw seed of the record.               *)
C2_OneSeedPerNormalizedText ==
  /\ \A store \in Stores : \A i, j \in DOMAIN store.seeds :
       store.seeds[i].normalized_seed = store.seeds[j].normalized_seed => i = j
  /\ (last.accepted /\ pc = "records") =>
       /\ last.seed_id \in DOMAIN session.seeds
       /\ session.seeds[last.seed_id].normalized_seed
            = normalize_seed(last.rec.seed.s)

(* A record whose raw seed differs from the stored raw text resolved to    *)
(* the existing Seed.                                                      *)
C2_Witness ==
  /\ pc = "records"
  /\ last.accepted
  /\ session.seeds[last.seed_id].seed_text # last.rec.seed.s

(* C3: no two Variation rows have the same (seed_id, normalized_variation),*)
(* and the Variation yielded for an accepted record is owned by the Seed   *)
(* yielded for that record, so one normalized variation under two Seeds is *)
(* two rows.                                                               *)
C3_OneVariationPerSeedAndText ==
  /\ \A store \in Stores : \A i, j \in DOMAIN store.variations :
       (/\ store.variations[i].seed_id = store.variations[j].seed_id
        /\ store.variations[i].normalized_variation
             = store.variations[j].normalized_variation) => i = j
  /\ (last.accepted /\ pc = "records") =>
       /\ last.variation_id \in DOMAIN session.variations
       /\ session.variations[last.variation_id].seed_id = last.seed_id
       /\ session.variations[last.variation_id].normalized_variation
            = normalize_variation(last.rec.variation.s)

(* Two committed Variation rows with one normalized text under two Seeds. *)
C3_Witness ==
  \E i, j \in DOMAIN db.variations :
    /\ db.variations[i].normalized_variation = db.variations[j].normalized_variation
    /\ db.variations[i].seed_id # db.variations[j].seed_id

----------------------------------------------------------------------------
(* The current call repeats the latest earlier non-dry-run call: the same  *)
(* batch name, file list (paths and contents), adapter and flags.          *)
Repeats == pc # "idle" /\ prev.run = run

Parseable(f) == is_file(f) /\ f.readable /\ Content(f.bytes).t # "malformed"

MalformedFile(f) == is_file(f) /\ f.readable /\ Content(f.bytes).t = "malformed"

Accepted(rec) == validate_record(rec).valid

AcceptedIn(f) == Len(SelectSeq(parse(Content(f.bytes)), Accepted))

NumParseable(files) == Cardinality({i \in DOMAIN files : Parseable(files[i])})

NumMalformed(files) == Cardinality({i \in DOMAIN files : MalformedFile(files[i])})

(* C4 as stated: a second non-dry-run resume=true call over the same file  *)
(* list under the same batch name reports files_skipped = number of files  *)
(* and observations_inserted = 0 and leaves the committed store unchanged. *)
C4_Original ==
  (pc = "returned" /\ Repeats /\ prev.pc = "returned" /\ run.resume /\ ~run.dry_run) =>
    /\ metrics.files_skipped = Len(run.files)
    /\ metrics.observations_inserted = 0
    /\ db = store0

(* C4 amended: the second call skips exactly the regular, parseable files  *)
(* of the list, counts each malformed file as one invalid record again,    *)
(* processes no file, inserts no observation and leaves the committed      *)
(* store unchanged; non-regular paths are counted nowhere.                 *)
C4_ResumeSkipsParseableFiles ==
  (pc = "returned" /\ Repeats /\ prev.pc = "returned" /\ run.resume /\ ~run.dry_run) =>
    /\ metrics.files_skipped = NumParseable(run.files)
    /\ metrics.invalid_records = NumMalformed(run.files)
    /\ metrics.files_processed = 0
    /\ metrics.observations_inserted = 0
    /\ db = store0

(* The second call has returned over a list with a malformed file and a    *)
(* file that the first call committed.                                     *)
C4_Witness ==
  /\ pc = "returned" /\ Repeats /\ prev.pc = "returned"
  /\ run.resume /\ ~run.dry_run
  /\ metrics.files_skipped = 1
  /\ metrics.invalid_records = 1
  /\ Len(db.observations) > 0

(* The NextFile step of a resume=true call on a readable regular file. *)
ResumeCheckStep ==
  /\ pc = "file"
  /\ fileIdx <= Len(run.files)
  /\ run.resume
  /\ is_file(run.files[fileIdx])
  /\ run.files[fileIdx].readable
  /\ ~(pc' = "raised" /\ err'.kind = "Crash")

SkippedStep ==
  /\ pc' = "file"
  /\ fileIdx' = fileIdx + 1
  /\ metrics' = [metrics EXCEPT !.files_skipped = @ + 1]
  /\ session' = session
  /\ db' = db

(* C5 as stated: with resume=true a regular file is skipped, and nothing   *)
(* else happens, if and only if the store holds a SourceFile row of the    *)
(* current Batch with the file's checksum.                                 *)
C5_Original ==
  [][ResumeCheckStep =>
       ((\E i \in DOMAIN session.source_files :
           /\ session.source_files[i].batch_id = batch
           /\ session.source_files[i].file_checksum
                = <<"sha256", run.files[fileIdx].bytes>>)
        <=> SkippedStep)]_vars

SkippedByResume(f) ==
  /\ run.resume
  /\ \E i \in DOMAIN store0.source_files :
       /\ store0.batches[store0.source_files[i].batch_id].batch_name = run.batch_name
       /\ store0.source_files[i].file_checksum = <<"sha256", f.bytes>>

RECURSIVE ExpectedDryRun(_)
ExpectedDryRun(files) ==
  IF files = <<>> THEN 0
  ELSE (IF Parseable(Head(files)) /\ ~SkippedByResume(Head(files))
        THEN AcceptedIn(Head(files)) ELSE 0)
       + ExpectedDryRun(Tail(files))

(* C6: throughout and after a dry_run=true call the committed store is     *)
(* what it was when the call started, and the returned Metrics count one   *)
(* observations_inserted for every record passing validation in the files  *)
(* the call did not skip.                                                  *)
C6_DryRunPurity ==
  (run.dry_run /\ pc # "idle") =>
    /\ db = store0
    /\ pc = "returned" => metrics.observations_inserted = ExpectedDryRun(run.files)

(* A dry run over a non-empty store has returned with records counted. *)
C6_Witness ==
  /\ run.dry_run
  /\ pc = "returned"
  /\ metrics.observations_inserted > 0
  /\ metrics.seeds_new > 0
  /\ Len(db.observations) > 0

Tables(store) ==
  <<store.seeds, store.variations, store.miners, store.source_files,
    store.observations>>

ObservationsOfFile(store, sf) ==
  {k \in DOMAIN store.observations : store.observations[k].source_file_id = <<sf>>}

(* C7: when a non-dry-run call is ended by an exception, every file it had *)
(* processed before is committed with its SourceFile row, record_count and *)
(* all its Observations, and when the exception came inside a file's       *)
(* record loop the committed Seed, Variation, Miner, SourceFile and        *)
(* Observation tables are those from before that file was loaded.          *)
C7_PerFileTransaction ==
  (pc = "raised" /\ err.at \in {"file", "records"} /\ ~run.dry_run) =>
    /\ \A i \in DOMAIN disp :
         (disp[i].what = "loaded" /\ (i < fileIdx \/ err.at = "file")) =>
           /\ disp[i].sf \in DOMAIN db.source_files
           /\ db.source_files[disp[i].sf] =
                [batch_id |-> batch, file_path |-> run.files[i].path,
                 file_checksum |-> <<"sha256", run.files[i].bytes>>,
                 record_count |-> <<AcceptedIn(run.files[i])>>]
           /\ Cardinality(ObservationsOfFile(db, disp[i].sf))
                = AcceptedIn(run.files[i])
    /\ err.at = "records" => Tables(db) = Tables(fileStart)

(* The call crashed in the second file after flushing an Observation of   *)
(* it, the first file being committed.                                     *)
C7_Witness ==
  /\ pc = "raised" /\ err.at = "records" /\ err.lostObs
  /\ ~run.dry_run
  /\ fileIdx = 2
  /\ disp[1].what = "loaded"
  /\ Len(db.observations) > 0

MidFileCrash == pc = "raised" /\ err.at = "records" /\ ~run.dry_run

(* The current call repeats, with resume=true, a call that crashed inside  *)
(* a file, and has reached that file again.                                *)
RetryReachedFile ==
  /\ Repeats /\ prev.pc = "raised" /\ prev.at = "records"
  /\ run.resume /\ ~run.dry_run
  /\ Len(disp) >= prev.fileIdx

(* C8 as stated: after a crash inside a file the committed store holds     *)
(* the file's SourceFile row, and an identical resume=true call skips the  *)
(* file.                                                                   *)
C8_Original ==
  /\ MidFileCrash =>
       \E i \in DOMAIN db.source_files :
         /\ db.source_files[i].batch_id = batch
         /\ db.source_files[i].file_path = run.files[fileIdx].path
         /\ db.source_files[i].file_checksum = <<"sha256", run.files[fileIdx].bytes>>
         /\ i \notin DOMAIN fileStart.source_files
  /\ RetryReachedFile => disp[prev.fileIdx].what = "skipped"

(* C8 amended: the SourceFile row is flushed before the records but        *)
(* committed only with them; after a crash inside a file the committed     *)
(* store holds no SourceFile row written for that file by the crashed      *)
(* call, and an identical resume=true call loads the file again.           *)
C8_SourceFileCommittedWithRecords ==
  /\ MidFileCrash => db.source_files = fileStart.source_files
  /\ (pc = "records" /\ ~run.dry_run) =>
       /\ src_file = <<Len(fileStart.source_files) + 1>>
       /\ src_file[1] \in DOMAIN session.source_files
       /\ src_file[1] \notin DOMAIN db.source_files
  /\ RetryReachedFile => disp[prev.fileIdx].what = "loaded"

(* The retry has loaded the file in which the earlier call crashed. *)
C8_Witness ==
  /\ RetryReachedFile
  /\ pc = "records"
  /\ fileIdx = prev.fileIdx
  /\ Len(db.source_files) > 0

StructuralError(f) == is_file(f) /\ (~f.readable \/ Content(f.bytes).t = "malformed")

(* C9 as stated: a malformed or unreadable file never ends the call; it is *)
(* passed over as one invalid record and the remaining files are handled.  *)
C9_Original ==
  /\ \A i \in DOMAIN disp :
       StructuralError(run.files[i]) => disp[i].what = "malformed"
  /\ (pc = "raised" /\ err.at = "file" /\ fileIdx <= Len(run.files)
        /\ StructuralError(run.files[fileIdx])) => err.kind = "Crash"

BadField(v) == v.t = "none" \/ v.t # "str" \/ (v.t = "str" /\ v.s = <<>>)

RecordStep == pc = "records" /\ recIdx <= Len(recs) /\ recIdx' = recIdx + 1

(* C10: a record is rejected exactly when its seed or its variation is     *)
(* absent, empty or not text; a rejected record adds one to                *)
(* invalid_records, changes no row and leaves the record loop running; an  *)
(* accepted record leaves invalid_records alone and counts one             *)
(* observation.                                                            *)
C10_RejectionRule ==
  [][RecordStep =>
       LET rec == recs[recIdx]
       IN IF BadField(rec.seed) \/ BadField(rec.variation)
          THEN /\ metrics' = [metrics EXCEPT !.invalid_records = @ + 1]
               /\ session' = session
               /\ db' = db
               /\ pc' = "records"
               /\ ~last'.accepted
          ELSE /\ metrics'.invalid_records = metrics.invalid_records
               /\ metrics'.observations_inserted = metrics.observations_inserted + 1
               /\ last'.accepted]_vars

(* In one file, a record was accepted after two records were rejected. *)
C10_Witness ==
  /\ pc = "records"
  /\ last.accepted
  /\ metrics.invalid_records = 2
  /\ metrics.observations_inserted = 2

----------------------------------------------------------------------------
YieldedIn(f) == Len(parse(Content(f.bytes)))

NumRegular(files) == Cardinality({i \in DOMAIN files : is_file(files[i])})

Handled(what) == {i \in DOMAIN disp : disp[i].what = what}

(* Records the adapter yielded, and records accepted, in the files among   *)
(* the first n that the call loaded.                                       *)
RECURSIVE LoadedYielded(_)
LoadedYielded(n) ==
  IF n = 0 THEN 0
  ELSE (IF disp[n].what = "loaded" THEN YieldedIn(run.files[n]) ELSE 0)
       + LoadedYielded(n - 1)

RECURSIVE LoadedAccepted(_)
LoadedAccepted(n) ==
  IF n = 0 THEN 0
  ELSE (IF disp[n].what = "loaded" THEN AcceptedIn(run.files[n]) ELSE 0)
       + LoadedAccepted(n - 1)

(* C11 as stated: when the call returns, every path of the list is counted *)
(* in exactly one of files_processed, files_skipped or (as a malformed     *)
(* file) invalid_records, and every yielded record in exactly one of       *)
(* observations_inserted or invalid_records.                               *)
C11_Original ==
  pc = "returned" =>
    LET rejected == LoadedYielded(Len(disp)) - LoadedAccepted(Len(disp))
    IN /\ metrics.files_processed + metrics.files_skipped
            + (metrics.invalid_records - rejected) = Len(run.files)
       /\ metrics.observations_inserted + rejected = LoadedYielded(Len(disp))

(* C11 amended: when the call returns, every regular file of the list is   *)
(* counted in exactly one of files_processed, files_skipped or (when       *)
(* malformed) invalid_records, every record the adapter yielded for a      *)
(* processed file is counted in exactly one of observations_inserted or    *)
(* invalid_records, and a path that is not a regular file is passed over   *)
(* without any counter.                                                    *)
C11_ExactAccounting ==
  pc = "returned" =>
    /\ Len(disp) = Len(run.files)
    /\ \A i \in DOMAIN run.files :
         /\ disp[i].what = "not_a_file" <=> ~is_file(run.files[i])
         /\ disp[i].what = "malformed" <=> MalformedFile(run.files[i])
    /\ metrics.files_processed = Cardinality(Handled("loaded"))
    /\ metrics.files_skipped = Cardinality(Handled("skipped"))
    /\ metrics.files_processed + metrics.files_skipped + NumMalformed(run.files)
         = NumRegular(run.files)
    /\ metrics.observations_inserted = LoadedAccepted(Len(disp))
    /\ metrics.invalid_records
         = NumMalformed(run.files)
           + (LoadedYielded(Len(disp)) - LoadedAccepted(Len(disp)))

(* A call has returned after a malformed file and a processed file two of  *)
(* whose records were rejected.                                            *)
C11_Witness ==
  /\ pc = "returned"
  /\ Handled("malformed") # {}
  /\ metrics.files_processed = 1
  /\ metrics.invalid_records = 3
  /\ metrics.observations_inserted = 2

----------------------------------------------------------------------------
(* C12: a call whose adapter name is not registered ends with the          *)
(* unknown-adapter error at its start: no file of the list is reached, no  *)
(* session is opened (nothing was flushed), no Batch or other row is       *)
(* created and no Metrics are returned.                                    *)
C12_UnknownAdapterFailsFirst ==
  (pc # "idle" /\ run.adapter_name \notin _REGISTRY) =>
    /\ pc = "raised"
    /\ err.kind = "KeyError" /\ err.at = "start"
    /\ disp = <<>>
    /\ fileIdx = 1
    /\ batch = 0
    /\ session = db
    /\ db = store0
    /\ metrics = Metrics

(* The unknown adapter was named together with a batch name the store does *)
(* not hold and a file list that starts with a parseable file.             *)
C12_Witness ==
  /\ pc = "raised"
  /\ err.kind = "KeyError"
  /\ run.adapter_name \notin _REGISTRY
  /\ Parseable(run.files[1])
  /\ \A i \in DOMAIN db.batches : db.batches[i].batch_name # run.batch_name

----------------------------------------------------------------------------
(* What the accepted records of a sequence put into the Observation table, *)
(* in order: the SourceFile id and the normalized pair.                    *)
RowsOf(sf, records) ==
  LET acc == SelectSeq(records, Accepted)
  IN [i \in 1..Len(acc) |->
        <<sf, normalize_seed(acc[i].seed.s), normalize_variation(acc[i].variation.s)>>]

(* The rows the call should have created by now: those of the files it     *)
(* loaded among the first n of the list, in list order, the current file   *)
(* contributing the records already handled.                               *)
RECURSIVE ExpectedRows(_)
ExpectedRows(n) ==
  IF n = 0 THEN <<>>
  ELSE ExpectedRows(n - 1)
       \o (IF disp[n].what # "loaded" THEN <<>>
           ELSE IF pc = "records" /\ n = fileIdx
                THEN RowsOf(<<disp[n].sf>>, SubSeq(recs, 1, recIdx - 1))
                ELSE RowsOf(<<disp[n].sf>>, parse(Content(run.files[n].bytes))))

(* The Observation rows a store holds beyond those of store0, in id order. *)
NewRows(store) ==
  [k \in 1..(Len(store.observations) - Len(store0.observations)) |->
     LET o == store.observations[Len(store0.observations) + k]
     IN <<o.source_file_id, store.seeds[o.seed_id].normalized_seed,
          store.variations[o.variation_id].normalized_variation>>]

(* C13: a non-dry-run call creates its Observation rows in input order     *)
(* (files in list order, records in the adapter's order); whenever it      *)
(* turns to the next path every file before it is committed, and while it  *)
(* is inside a file the committed store holds the rows of the earlier      *)
(* files and none of the current one.                                      *)
C13_InputOrder ==
  (pc \in {"file", "records", "returned"} /\ ~run.dry_run) =>
    /\ NewRows(session) = ExpectedRows(Len(disp))
    /\ pc \in {"file", "returned"} => Tables(db) = Tables(session)
    /\ pc = "records" =>
         /\ Len(disp) = fileIdx
         /\ NewRows(db) = ExpectedRows(fileIdx - 1)

(* Inside the second file, after a committed first file, two records of    *)
(* the second file handled and the latest one accepted.                    *)
C13_Witness ==
  /\ pc = "records" /\ ~run.dry_run
  /\ fileIdx = 2
  /\ disp[1].what = "loaded"
  /\ Len(db.observations) > Len(store0.observations)
  /\ recIdx > 2
  /\ last.accepted

----------------------------------------------------------------------------
(* Two ingestion runs, each in its own session on the same database (the   *)
(* default engine is PostgreSQL, read committed), inside                    *)
(* _get_or_create_seed for one record each.  A writer's lookup sees the     *)
(* committed rows; its INSERT is checked against the unique index on       *)
(* seed_text and waits while another session holds an uncommitted row with *)
(* the same key; its commit makes its row durable.                         *)

SeedTexts == {<<"A", "b">>, <<"a", "b">>, <<"a_uml", "b">>, <<"b">>}

(* batch.py, lines 46-48 and 57-59: the select by normalized_seed; an      *)
(* existing row is returned.                                               *)
SeedLookup(w, raw_seed) ==
  /\ race[w].pc = "idle"
  /\ LET got == scalar_one_or_none(SeedsOf(db, normalize_seed(raw_seed)))
     IN race' = [race EXCEPT ![w] =
                   [pc |-> IF got.raised THEN "raised"
                           ELSE IF got.id # 0 THEN "found" ELSE "missing",
                    raw_seed |-> raw_seed, pending |-> <<>>]]
  /\ UNCHANGED <<db, session, pc, run, batch, fileIdx, recs, recIdx,
                 record_count, src_file, metrics, err, nRuns, store0, prev,
                 disp, fileStart, journal, last, normalizer, api, forecast>>

(* batch.py, lines 49-56: no row was found, so a Seed is added and flushed *)
SeedInsert(w) ==
  /\ race[w].pc = "missing"
  /\ LET raw_seed == race[w].raw_seed
         norm_seed == normalize_seed(raw_seed)
         row == Seed(raw_seed, norm_seed, md5_hex(norm_seed))
     IN /\ \A v \in Writers \ {w} :
             \A i \in DOMAIN race[v].pending :
               race[v].pending[i].seed_text # row.seed_text
        /\ race' = [race EXCEPT ![w] =
                      IF SeedInsertOk(db, row)
                      THEN [@ EXCEPT !.pc = "flushed", !.pending = <<row>>]
                      ELSE [@ EXCEPT !.pc = "raised"]]
  /\ UNCHANGED <<db, session, pc, run, batch, fileIdx, recs, recIdx,
                 record_count, src_file, metrics, err, nRuns, store0, prev,
                 disp, fileStart, journal, last, normalizer, api, forecast>>

(* batch.py, lines 222-223: the writer's commit *)
WriterCommit(w) ==
  /\ race[w].pc = "flushed"
  /\ db' = Commit(db, [db EXCEPT !.seeds = @ \o race[w].pending])
  /\ race' = [race EXCEPT ![w] = [@ EXCEPT !.pc = "committed", !.pending = <<>>]]
  /\ UNCHANGED <<session, pc, run, batch, fileIdx, recs, recIdx,
                 record_count, src_file, metrics, err, nRuns, store0, prev,
                 disp, fileStart, journal, last, normalizer, api, forecast>>

NextRace ==
  \/ \E w \in Writers, raw_seed \in SeedTexts : SeedLookup(w, raw_seed)
  \/ \E w \in Writers : SeedInsert(w)
  \/ \E w \in Writers : WriterCommit(w)

SpecRace == Init /\ [][NextRace]_vars

(* C14 as stated: however two runs interleave, they never both insert a    *)
(* Seed for one normalized text: the committed store holds at most one     *)
(* Seed row per normalized_seed.                                           *)
C14_Original ==
  \A i, j \in DOMAIN db.seeds :
    db.seeds[i].normalized_seed = db.seeds[j].normalized_seed => i = j

----------------------------------------------------------------------------
(* C15 as stated: the committed store holds at most one SourceFile row per *)
(* (batch, checksum), and the resume lookup of a resume=true call never    *)
(* fails.                                                                  *)
C15_Original ==
  /\ \A i, j \in DOMAIN db.source_files :
       (/\ db.source_files[i].batch_id = db.source_files[j].batch_id
        /\ db.source_files[i].file_checksum = db.source_files[j].file_checksum)
         => i = j
  /\ err.kind # "MultipleResultsFound"

----------------------------------------------------------------------------
(* C16: no store holds two Batch rows with one name; a call works under    *)
(* the Batch row that carries its batch name, which is the stored row when *)
(* the name was stored before the call, and every SourceFile and           *)
(* Observation row the call creates carries that row's id.                 *)
C16_OneBatchPerName ==
  /\ \A store \in Stores : \A i, j \in DOMAIN store.batches :
       store.batches[i].batch_name = store.batches[j].batch_name => i = j
  /\ pc \in {"file", "records"} =>
       /\ batch \in DOMAIN session.batches
       /\ session.batches[batch].batch_name = run.batch_name
       /\ \A i \in DOMAIN store0.batches :
            store0.batches[i].batch_name = run.batch_name => batch = i
       /\ \A k \in DOMAIN session.source_files :
            k > Len(store0.source_files) => session.source_files[k].batch_id = batch
       /\ \A k \in DOMAIN session.observations :
            k > Len(store0.observations) => session.observations[k].batch_id = batch

(* A call under a name stored by an earlier call has committed a file:     *)
(* Observations of both calls carry the one Batch id.                      *)
C16_Witness ==
  /\ pc = "file" /\ ~run.dry_run
  /\ batch \in DOMAIN store0.batches
  /\ \E k \in DOMAIN store0.observations : store0.observations[k].batch_id = batch
  /\ \E k \in DOMAIN db.observations :
       k > Len(store0.observations) /\ db.observations[k].batch_id = batch

----------------------------------------------------------------------------
(* Callers of normalize/text.py *)

MaxLen == 3

Alphabet ==
  {"a", "b", "A", "B", "a_uml", "A_uml", "comb", "sp", "tab", "diaer", "modA", "7"}

Texts == UNION {[1..n -> Alphabet] : n \in 0..MaxLen}

InitNormalize ==
  /\ Fresh
  /\ race = NoRace
  /\ api = NoRequest
  /\ forecast = NoForecast
  /\ normalizer \in {Caller(t, c) : t \in Texts, c \in BOOLEAN}

ingestVars ==
  <<db, session, pc, run, batch, fileIdx, recs, recIdx, record_count, src_file,
    metrics, err, nRuns, store0, prev, disp, fileStart, journal, last>>

(* normalize_text(text), then normalize_text of what it returned *)
NormalizeText ==
  /\ Len(normalizer.results) < 2
  /\ normalizer.variant = normalizer.text
  /\ normalizer.pair = <<>>
  /\ LET x == IF normalizer.results = <<>> THEN normalizer.text
              ELSE normalizer.results[Len(normalizer.results)]
     IN normalizer' =
          [normalizer EXCEPT !.results =
             Append(@, normalize_text(x, normalizer.collapse_repeats))]
  /\ UNCHANGED <<ingestVars, race, api, forecast>>

Letter(ch) == ch \in {"a", "b", "A", "B", "a_uml", "A_uml"}

OtherCase(ch) ==
  CASE ch = "a" -> "A" [] ch = "A" -> "a"
    [] ch = "b" -> "B" [] ch = "B" -> "b"
    [] ch = "a_uml" -> "A_uml" [] ch = "A_uml" -> "a_uml"
    [] OTHER -> ch

CanVary ==
  /\ ~normalizer.collapse_repeats
  /\ normalizer.results = <<>>
  /\ normalizer.pair = <<>>

Insert(t, i, ch) == SubSeq(t, 1, i) \o <<ch>> \o SubSeq(t, i + 1, Len(t))

Remove(t, i) == SubSeq(t, 1, i - 1) \o SubSeq(t, i + 1, Len(t))

(* The second text gets the other case of one of its letters. *)
SwapCase(i) ==
  /\ CanVary
  /\ i \in DOMAIN normalizer.variant
  /\ Letter(normalizer.variant[i])
  /\ normalizer' = [normalizer EXCEPT !.variant[i] = OtherCase(@)]
  /\ UNCHANGED <<ingestVars, race, api, forecast>>

(* A combining accent is put on, or taken off, a letter of the second text. *)
ToggleAccent(i) ==
  /\ CanVary
  /\ i \in DOMAIN normalizer.variant
  /\ Letter(normalizer.variant[i])
  /\ LET t == normalizer.variant
     IN IF i < Len(t) /\ Combining(t[i + 1])
        THEN normalizer' = [normalizer EXCEPT !.variant = Remove(t, i + 1)]
        ELSE /\ Len(t) <= MaxLen
             /\ normalizer' = [normalizer EXCEPT !.variant = Insert(t, i, "comb")]
  /\ UNCHANGED <<ingestVars, race, api, forecast>>

(* A whitespace character is put before or behind the second text. *)
Pad(ws, front) ==
  /\ CanVary
  /\ Len(normalizer.variant) <= MaxLen
  /\ normalizer' =
       [normalizer EXCEPT !.variant = IF front THEN <<ws>> \o @ ELSE @ \o <<ws>>]
  /\ UNCHANGED <<ingestVars, race, api, forecast>>

(* A whitespace run inside the second text gets one character longer. *)
Stretch(i, ws) ==
  /\ CanVary
  /\ i \in DOMAIN normalizer.variant
  /\ IsSpace(normalizer.variant[i])
  /\ Len(normalizer.variant) <= MaxLen
  /\ normalizer' = [normalizer EXCEPT !.variant = Insert(@, i, ws)]
  /\ UNCHANGED <<ingestVars, race, api, forecast>>

(* normalize_seed and normalize_variation of the two texts *)
NormalizePair ==
  /\ normalizer.results = <<>>
  /\ normalizer.pair = <<>>
  /\ ~normalizer.collapse_repeats
  /\ normalizer' =
       [normalizer EXCEPT !.pair =
          <<[seed |-> normalize_seed(normalizer.text),
             variation |-> normalize_variation(normalizer.text)],
            [seed |-> normalize_seed(normalizer.variant),
             variation |-> normalize_variation(normalizer.variant)]>>]
  /\ UNCHANGED <<ingestVars, race, api, forecast>>

NextNormalize ==
  \/ NormalizeText
  \/ \E i \in 1..(MaxLen + 1) : SwapCase(i)
  \/ \E i \in 1..(MaxLen + 1) : ToggleAccent(i)
  \/ \E ws \in {"sp", "tab"}, front \in BOOLEAN : Pad(ws, front)
  \/ \E i \in 1..(MaxLen + 1), ws \in {"sp", "tab"} : Stretch(i, ws)
  \/ NormalizePair

SpecNormalize == InitNormalize /\ [][NextNormalize]_vars

(* C17 as stated: normalize_text of a result of normalize_text is that     *)
(* result, for every text and either value of collapse_repeats.            *)
C17_Original ==
  Len(normalizer.results) = 2 => normalizer.results[2] = normalizer.results[1]

IsLowerCase(t) == \A i \in DOMAIN t : Lower(t[i]) = t[i]

AccentFree(t) == \A i \in DOMAIN t : t[i] \notin {"comb", "a_uml", "A_uml", "diaer"}

Trimmed(t) == Strip(t) = t

SingleSpaced(t) ==
  \A i \in DOMAIN t :
    IsSpace(t[i]) => (t[i] = "sp" /\ (i < Len(t) => ~IsSpace(t[i + 1])))

SameResults ==
  normalizer.pair # <<>> => normalizer.pair[1] = normalizer.pair[2]

(* C18 as stated: two texts that differ only in letter case, in combining  *)
(* accents on letters, in leading or trailing whitespace or in the length  *)
(* of internal whitespace runs get the same normalize_seed and the same    *)
(* normalize_variation, and that result is lower-case, accent-free,        *)
(* trimmed and single-spaced.                                              *)
C18_Original ==
  /\ SameResults
  /\ normalizer.pair # <<>> =>
       \A k \in 1..2 : \A t \in {normalizer.pair[k].seed, normalizer.pair[k].variation} :
         IsLowerCase(t) /\ AccentFree(t) /\ Trimmed(t) /\ SingleSpaced(t)

----------------------------------------------------------------------------
(* api/routers/seeds.py: seed_diff *)

(* The keys of the dict built from a list, in insertion order *)
RECURSIVE DictKeys(_)
DictKeys(list) ==
  IF list = <<>> THEN <<>>
  ELSE LET front == DictKeys(SubSeq(list, 1, Len(list) - 1))
           x == list[Len(list)]
       IN IF \E i \in DOMAIN front : front[i] = x THEN front ELSE Append(front, x)

(* seed_diff comparing the candidates' raw text with the stored raw text *)
SeedDiffByRawText(store, seed, variations) ==
  LET got == scalar_one_or_none(SeedsOf(store, normalize_seed(seed)))
      texts == {store.variations[j].variation_text :
                  j \in {k \in DOMAIN store.variations :
                           store.variations[k].seed_id = got.id}}
      known(v) == v \in texts
      unknown(v) == v \notin texts
  IN IF got.raised \/ got.id = 0
     THEN [raised |-> got.raised, existing |-> <<>>,
           new |-> IF got.raised THEN <<>> ELSE variations, store |-> store]
     ELSE [raised |-> FALSE,
           existing |-> SelectSeq(DictKeys(variations), known),
           new |-> SelectSeq(DictKeys(variations), unknown), store |-> store]

(* seeds.py, lines 80-109.  Yields the response and the store after the    *)
(* call.                                                                   *)
seed_diff(store, seed, variations) ==
  LET seed_norm == normalize_seed(seed)
      seed_row == scalar_one_or_none(SeedsOf(store, seed_norm))
  IN IF seed_row.raised
     THEN [raised |-> TRUE, existing |-> <<>>, new |-> <<>>, store |-> store]
     ELSE IF seed_row.id = 0
     THEN [raised |-> FALSE, existing |-> <<>>, new |-> variations, store |-> store]
     ELSE
     LET seed_id == seed_row.id
         raw_vars == DictKeys(variations)
         wanted == {normalize_variation(raw_vars[i]) : i \in DOMAIN raw_vars}
         existing_norms ==
           {store.variations[j].normalized_variation :
              j \in {k \in DOMAIN store.variations :
                       /\ store.variations[k].seed_id = seed_id
                       /\ store.variations[k].normalized_variation \in wanted}}
         is_existing(raw_var) == normalize_variation(raw_var) \in existing_norms
         is_new(raw_var) == normalize_variation(raw_var) \notin existing_norms
     IN [raised |-> FALSE,
         existing |-> SelectSeq(raw_vars, is_existing),
         new |-> SelectSeq(raw_vars, is_new),
         store |-> store]

MaxCandidates == 2

DiffSeeds == {<<"A", "b">>, <<"B">>, <<"b", "a">>, <<"sp">>}

CandidateTexts == {<<"b", "a">>, <<"B", "a", "sp">>, <<"a", "b">>, <<"diaer">>}

CandidateLists == UNION {[1..n -> CandidateTexts] : n \in 1..MaxCandidates}

(* A POST /seeds/diff request is answered from the committed store. *)
SeedDiff(seed, variations) ==
  /\ pc = "idle"
  /\ ~api.called
  /\ LET r == seed_diff(db, seed, variations)
     IN /\ api' = [called |-> TRUE, seed |-> seed, variations |-> variations,
                   raised |-> r.raised, existing |-> r.existing, new |-> r.new,
                   before |-> db]
        /\ db' = r.store
  /\ UNCHANGED <<session, pc, run, batch, fileIdx, recs, recIdx, record_count,
                 src_file, metrics, err, nRuns, store0, prev, disp, fileStart,
                 journal, last, normalizer, race, forecast>>

(* The response is delivered; the request is over. *)
Respond ==
  /\ api.called
  /\ api' = NoRequest
  /\ UNCHANGED <<ingestVars, normalizer, race, forecast>>

(* The query surface between ingestion runs of one batch (the command     *)
(* line's defaults: resume, no dry run) that are left to finish            *)
NextApi ==
  \/ \E files \in FileLists :
       ~api.called /\ StartRun("b1", files, "generic_responses_v1", FALSE, TRUE)
  \/ NextFile
  \/ NextRecord
  \/ FinishFile
  \/ Return
  \/ Exit
  \/ \E seed \in DiffSeeds, variations \in CandidateLists : SeedDiff(seed, variations)
  \/ Respond

SpecApi == Init /\ [][NextApi]_vars

Elems(seq) == {seq[i] : i \in DOMAIN seq}

(* The Seed rows of the store for the request's seed *)
RequestedSeeds == SeedsOf(api.before, normalize_seed(api.seed))

(* The candidate's normalized form is that of a Variation of the Seed. *)
KnownCandidate(c) ==
  \E j \in DOMAIN api.before.variations :
    /\ api.before.variations[j].seed_id \in RequestedSeeds
    /\ api.before.variations[j].normalized_variation = normalize_variation(c)

(* C19: a seed_diff response puts every candidate in exactly one of        *)
(* existing and new, a candidate being in existing exactly when the Seed   *)
(* exists and a Variation of it has the candidate's normalized form; it    *)
(* returns only raw candidates of the request; the store is what it was    *)
(* before the request; and for an unknown Seed every candidate is new.     *)
C19_SeedDiffPartition ==
  api.called =>
    /\ ~api.raised
    /\ \A c \in Elems(api.variations) :
         /\ (c \in Elems(api.existing)) # (c \in Elems(api.new))
         /\ c \in Elems(api.existing) <=> KnownCandidate(c)
    /\ Elems(api.existing) \cup Elems(api.new) \subseteq Elems(api.variations)
    /\ db = api.before
    /\ RequestedSeeds = {} => (api.existing = <<>> /\ api.new = api.variations)

(* A response with one existing and one new candidate, the existing one    *)
(* differing in its raw text from the stored Variation.                    *)
C19_Witness ==
  /\ api.called
  /\ Len(api.existing) = 1 /\ Len(api.new) = 1
  /\ \A j \in DOMAIN db.variations : db.variations[j].variation_text # api.existing[1]

----------------------------------------------------------------------------
(* ingest/metrics.py: Metrics.increment, called on a Metrics object by any *)
(* holder of it.  kwargs is the sequence of the call's (name, value)       *)
(* keyword arguments.                                                      *)

RECURSIVE increment(_, _)
increment(m, kwargs) ==
  IF kwargs = <<>> THEN m
  ELSE LET key == Head(kwargs)[1]
           value == Head(kwargs)[2]
       IN increment(IF key \in DOMAIN m THEN [m EXCEPT ![key] = @ + value] ELSE m,
                    Tail(kwargs))

MaxCount == 3

IncrementKeys == {"seeds_new", "files_skipped", "invalid_records", "unknown"}

IncrementValues == {0 - 1, 0, 1, MaxCount}

Kwargs ==
  {<<<<k, v>>>> : k \in IncrementKeys, v \in IncrementValues}
  \cup {<<<<"seeds_new", v>>, <<"invalid_records", w>>>> :
          v \in IncrementValues, w \in IncrementValues}

Increment(kwargs) ==
  /\ pc = "idle"
  /\ LET m == increment(metrics, kwargs)
     IN /\ \A k \in DOMAIN m : m[k] >= 0 - MaxCount /\ m[k] <= MaxCount
        /\ metrics' = m
  /\ UNCHANGED <<db, session, pc, run, batch, fileIdx, recs, recIdx, record_count,
                 src_file, err, nRuns, store0, prev, disp, fileStart, journal,
                 last, otherVars>>

NextMetrics == \E kwargs \in Kwargs : Increment(kwargs)

SpecMetrics == Init /\ [][NextMetrics]_vars

(* C20 as stated: no call of Metrics.increment, whatever integers it is    *)
(* given, makes a counter smaller than it was.                             *)
C20_Original ==
  [][\A k \in DOMAIN metrics : metrics'[k] >= metrics[k]]_vars

----------------------------------------------------------------------------
(* Accepted records of a sequence whose seed store0 does not hold *)
UnknownSeedRecords(records) ==
  Len(SelectSeq(records,
        LAMBDA rec : Accepted(rec)
                     /\ SeedsOf(store0, normalize_seed(rec.seed.s)) = {}))

(* C21 as stated: a dry run adds and flushes no row to its session, and    *)
(* answers every lookup from the rows persisted before it, so each         *)
(* accepted record whose seed was not persisted is counted as seeds_new.   *)
C21_Original ==
  (run.dry_run /\ pc \in {"file", "records"}) =>
    /\ session = store0
    /\ (pc = "records" /\ recIdx > Len(recs)) =>
         metrics.seeds_new >= UnknownSeedRecords(recs)

(* C22: every committed SourceFile row has a record_count equal to the     *)
(* number of records of its file that passed validation, which is the      *)
(* number of Observation rows pointing at it; rejected records are not     *)
(* counted.                                                                *)
C22_RecordCountIsAccepted ==
  \A sf \in DOMAIN db.source_files :
    LET row == db.source_files[sf]
    IN /\ row.record_count = <<AcceptedIn([bytes |-> row.file_checksum[2]])>>
       /\ row.record_count = <<Cardinality(ObservationsOfFile(db, sf))>>

(* Two files are committed, one of them with rejected records. *)
C22_Witness ==
  \E sf, other \in DOMAIN db.source_files :
    /\ sf # other
    /\ YieldedIn([bytes |-> db.source_files[sf].file_checksum[2]])
         > AcceptedIn([bytes |-> db.source_files[sf].file_checksum[2]])
    /\ db.source_files[sf].record_count = <<2>>
    /\ db.source_files[other].record_count # <<>>

(* Rows present before and after a step *)
Kept(before, after) == DOMAIN before \cap DOMAIN after

(* C23: no step changes a Seed or Variation row that exists before and     *)
(* after it, in the session or in the committed store, and committed rows  *)
(* stay; a record that resolves to an existing row leaves the table as it  *)
(* was, and a row created for a record carries that record's raw text, so  *)
(* the stored display text is the raw text of the first sighting.          *)
C23_RowsNeverMutated ==
  [][/\ \A i \in Kept(session.seeds, session'.seeds) :
          session'.seeds[i] = session.seeds[i]
     /\ \A i \in Kept(session.variations, session'.variations) :
          session'.variations[i] = session.variations[i]
     /\ \A i \in DOMAIN db.seeds :
          i \in DOMAIN db'.seeds /\ db'.seeds[i] = db.seeds[i]
     /\ \A i \in DOMAIN db.variations :
          i \in DOMAIN db'.variations /\ db'.variations[i] = db.variations[i]
     /\ (RecordStep /\ last'.accepted) =>
          /\ IF last'.seed_id \in DOMAIN session.seeds
             THEN session'.seeds = session.seeds
             ELSE session'.seeds[last'.seed_id].seed_text = last'.rec.seed.s
          /\ IF last'.variation_id \in DOMAIN session.variations
             THEN session'.variations = session.variations
             ELSE session'.variations[last'.variation_id].variation_text
                    = last'.rec.variation.s
    ]_vars

(* A record found a Seed committed by an earlier call and a Variation      *)
(* whose stored raw text differs from the record's.                        *)
C23_Witness ==
  /\ pc = "records"
  /\ last.accepted
  /\ last.seed_id \in DOMAIN store0.seeds
  /\ session.variations[last.variation_id].variation_text # last.rec.variation.s

(* C24: the hash stored with a Seed is md5_hex of its normalized_seed and  *)
(* the hash stored with a Variation is md5_hex of its                      *)
(* normalized_variation, so rows with equal normalized text carry equal    *)
(* hashes whatever their raw text.                                         *)
C24_HashOfNormalizedText ==
  \A store \in Stores :
    /\ \A i \in DOMAIN store.seeds :
         store.seeds[i].seed_hash = md5_hex(store.seeds[i].normalized_seed)
    /\ \A i \in DOMAIN store.variations :
         store.variations[i].variation_hash
           = md5_hex(store.variations[i].normalized_variation)
    /\ \A i, j \in DOMAIN store.variations :
         store.variations[i].normalized_variation
           = store.variations[j].normalized_variation
         => store.variations[i].variation_hash = store.variations[j].variation_hash

(* Committed: a Seed whose raw text is not its normalized text, and two     *)
(* Variation rows with one normalized text.                                *)
C24_Witness ==
  /\ \E i \in DOMAIN db.seeds :
       db.seeds[i].seed_text # db.seeds[i].normalized_seed
  /\ \E i, j \in DOMAIN db.variations :
       /\ i # j
       /\ db.variations[i].variation_hash = db.variations[j].variation_hash

(* C26 as stated: no stored Seed has an empty normalized_seed and no       *)
(* stored Variation has an empty normalized_variation.                     *)
C26_Original ==
  \A store \in Stores :
    /\ \A i \in DOMAIN store.seeds : store.seeds[i].normalized_seed # <<>>
    /\ \A i \in DOMAIN store.variations :
         store.variations[i].normalized_variation # <<>>

(* C27: between two records and when ingest_batch returns, seeds_new +     *)
(* seeds_existing = variations_new + variations_existing =                 *)
(* observations_inserted, in dry-run and in normal mode.                   *)
C27_OneCountEachPerRecord ==
  pc \in {"file", "records", "returned"} =>
    /\ metrics.seeds_new + metrics.seeds_existing = metrics.observations_inserted
    /\ metrics.variations_new + metrics.variations_existing
         = metrics.observations_inserted

(* A dry run returned after new and known seeds, new and known variations  *)
(* and a rejected record.                                                  *)
C27_Witness ==
  /\ pc = "returned"
  /\ run.dry_run
  /\ metrics.seeds_new > 0 /\ metrics.seeds_existing > 0
  /\ metrics.variations_new > 0 /\ metrics.variations_existing > 0
  /\ metrics.invalid_records > 0

----------------------------------------------------------------------------
(* A program calling ingest_batch itself: unlike ingest/cli.py it may pass *)
(* an empty file list, and it keeps the Metrics of a dry run to compare    *)
(* them with the real run that follows.                                    *)

(* File lists of a direct caller: none, only a malformed file, only a      *)
(* directory, two files of one content, two files of different content.    *)
CallerFileLists == {<<>>, <<F5>>, <<F6>>, <<F1, F2>>, <<F1, F3>>}

(* ingest_batch, line 224 with dry_run: the caller keeps the returned      *)
(* Metrics beside the arguments and the store the dry run started from.    *)
KeepForecast ==
  /\ pc = "returned"
  /\ run.dry_run
  /\ forecast # [run |-> run, store |-> store0, metrics |-> metrics]
  /\ forecast' = [run |-> run, store |-> store0, metrics |-> metrics]
  /\ UNCHANGED <<db, session, pc, run, batch, fileIdx, recs, recIdx,
                 record_count, src_file, metrics, err, nRuns, store0, prev,
                 disp, fileStart, journal, last, normalizer, race, api>>

NextCaller ==
  \/ \E batch_name \in BatchNames, files \in CallerFileLists,
        dry_run \in BOOLEAN, resume \in BOOLEAN :
       StartRun(batch_name, files, "generic_responses_v1", dry_run, resume)
  \/ NextFile
  \/ NextRecord
  \/ FinishFile
  \/ Return
  \/ KeepForecast
  \/ Exit

SpecCaller == Init /\ [][NextCaller]_vars

(* C25 as stated: when a non-dry-run call returns normally, the committed  *)
(* store holds a Batch row with the call's batch name.                     *)
C25_Original ==
  (pc = "returned" /\ ~run.dry_run) =>
    \E i \in DOMAIN db.batches : db.batches[i].batch_name = run.batch_name

(* The current call is the real run of the dry run the caller kept: same   *)
(* batch name, file list, adapter and resume flag, from the same store.    *)
RealRunOfForecast ==
  /\ pc = "returned"
  /\ ~run.dry_run
  /\ forecast.run = [run EXCEPT !.dry_run = TRUE]
  /\ forecast.store = store0

(* C28 as stated: the Metrics a dry run returned equal the Metrics the     *)
(* real run returns for the same arguments from the same store.            *)
C28_Original == RealRunOfForecast => metrics = forecast.metrics

====
